---- MODULE Spec2Model ----
(***************************************************************************)
(* Model of weekend_picker: input validation (models.py), the              *)
(* Friday-Sunday candidate generator (candidates.py), the two-phase        *)
(* ranking engine (optimizer.py), the result payload (reporting.py) and    *)
(* the command line (cli.py).                                              *)
(*                                                                         *)
(* Dates are day numbers; day 0 is a Monday, so date.weekday() is d % 7    *)
(* (Monday = 0 ... Sunday = 6) and timedelta(days=k) is "+ k".             *)
(* An absent record ("X | None") is None; an absent date is NoDate, which   *)
(* is no calendar day.                                                     *)
(***************************************************************************)
EXTENDS Integers, Sequences, FiniteSets, TLC

VARIABLES
    input_data,    \* the InputData handed to the engine, None before it is loaded
    candidates,    \* the list returned by generate_weekend_candidates
    top_n,         \* the top_n argument of rank_weekends / args.top_n
    weekend,       \* the weekend argument of the last evaluation call
    evaluation,    \* the value returned by the last evaluation call
    ranked,        \* the list returned by rank_weekends
    impact_person, \* the person argument of the last impact calls
    impact_hard,   \* the value returned by _evaluate_person_hard_impact
    impact_soft,   \* the value returned by _evaluate_person_soft_impact
    args,          \* the parsed command line of run_cli
    fault,         \* the phase of run_cli in which the environment fails
    payload,       \* the raw JSON object under parse_input_payload; in run_cli
                   \* the result payload, None before it is built
    error,         \* the exception that ended the call, "none" without one
    exit_code,     \* <<>> while run_cli runs, <<status>> once it has ended
    stdout,        \* what run_cli has printed to standard output
    pc

impact_vars == <<impact_person, impact_hard, impact_soft>>

cli_vars == <<args, fault, payload, error, exit_code, stdout>>

vars == <<input_data, candidates, top_n, weekend, evaluation, ranked, impact_person, impact_hard, impact_soft, args, fault, payload, error, exit_code, stdout, pc>>

(***************************************************************************)
(* Bounds of the checked instance.                                         *)
(***************************************************************************)
MaxDay == 24          \* windows of the wide sweep lie in 0..MaxDay
MaxWeeks == 2         \* windows of the constrained runs end up to MaxWeeks weeks later
MaxPeople == 2        \* people per input
MaxConstraints == 2   \* constraints of one input, all people and lists together
MaxTopN == 3          \* top_n ranges over -1..MaxTopN
MaxRawPeople == 2     \* entries of the raw "people" list
MaxNameLen == 2       \* tokens of a raw name
MaxRawConstraints == 2 \* entries of a raw "hard_constraints" list

(***************************************************************************)
(* Program constants.                                                      *)
(***************************************************************************)
friday_weekday == 4
DefaultTopN == 3
None == [none |-> TRUE]
NoDate == -1

(***************************************************************************)
(* models.py: DateConstraint                                               *)
(***************************************************************************)
Single(d) ==
    [kind |-> "date", date_value |-> d, start_date |-> NoDate, end_date |-> NoDate]

Interval(s, e) ==
    [kind |-> "interval", date_value |-> NoDate, start_date |-> s, end_date |-> e]

\* Variant: the end of an interval is not covered.
overlaps_date_exclusive_end(self, target_date) ==
    IF self.kind = "date"
    THEN self.date_value = target_date
    ELSE IF self.start_date = NoDate \/ self.end_date = NoDate
         THEN FALSE
         ELSE self.start_date <= target_date /\ target_date < self.end_date

overlaps_date(self, target_date) ==
    IF self.kind = "date"
    THEN self.date_value = target_date
    ELSE IF self.start_date = NoDate \/ self.end_date = NoDate
         THEN FALSE
         ELSE self.start_date <= target_date /\ target_date <= self.end_date

\* The f-string of describe() is kept as the tuple of its parts.
describe(self) ==
    IF self.kind = "date" /\ self.date_value # NoDate
    THEN <<"date", self.date_value>>
    ELSE IF self.start_date = NoDate \/ self.end_date = NoDate
         THEN <<"interval:invalid">>
         ELSE <<"interval", self.start_date, self.end_date>>

PersonConstraints(name, hard_constraints, soft_constraints) ==
    [name |-> name,
     hard_constraints |-> hard_constraints,
     soft_constraints |-> soft_constraints]

InputData(min_date, max_date, people) ==
    [min_date |-> min_date, max_date |-> max_date, people |-> people]

(***************************************************************************)
(* models.py: input validation.                                            *)
(*                                                                         *)
(* A JSON value is None (null) or a record tagged with its Python type; a  *)
(* JSON object carries a function from its keys to its values.  A string   *)
(* is a sequence of tokens: " " is a blank, "-" a dash, "2024", "01", ...  *)
(* groups of digits, anything else a word.  A call returns Ok(value) or    *)
(* Raise(exception class).                                                 *)
(***************************************************************************)
JStr(tokens) == [t |-> "str", v |-> tokens]

JInt(n) == [t |-> "int", v |-> n]

JList(items) == [t |-> "list", v |-> items]

JDict(d) == [t |-> "dict", v |-> d]

isinstance(x, type) == x # None /\ x.t = type

Ok(value) == [ok |-> TRUE, value |-> value]

Raise(exception) == [ok |-> FALSE, error |-> exception]

\* What a call leaves in the variable it is assigned to, and the exception
\* class it leaves in "error".
returned(call) == IF call.ok THEN call.value ELSE None

raised(call) == IF call.ok THEN "none" ELSE call.error

\* dict.get(key, default)
get(d, key, default) == IF key \in DOMAIN d THEN d[key] ELSE default

\* str(x): a string is itself, any other value prints as one word.
py_str(x) == IF isinstance(x, "str") THEN x.v ELSE <<"repr">>

\* str.strip(): blanks are dropped from both ends.
RECURSIVE lstrip(_)
lstrip(tokens) ==
    IF tokens # <<>> /\ Head(tokens) = " " THEN lstrip(Tail(tokens)) ELSE tokens

RECURSIVE rstrip(_)
rstrip(tokens) ==
    IF tokens # <<>> /\ tokens[Len(tokens)] = " "
    THEN rstrip(SubSeq(tokens, 1, Len(tokens) - 1))
    ELSE tokens

strip(tokens) == rstrip(lstrip(tokens))

\* The calendar of 2024, the year of every date string of the inputs.
TwoDigitTokens ==
    <<"01", "02", "03", "04", "05", "06", "07", "08", "09", "10", "11",
      "12", "13", "14", "15", "16", "17", "18", "19", "20", "21", "22",
      "23", "24", "25", "26", "27", "28", "29", "30", "31", "32">>

\* The number a group of digits reads as under %m and %d, which also take a
\* single digit.
TwoDigits ==
    [tok \in {TwoDigitTokens[n] : n \in DOMAIN TwoDigitTokens} \cup {"5"} |->
        IF tok = "5" THEN 5
        ELSE CHOOSE n \in DOMAIN TwoDigitTokens : TwoDigitTokens[n] = tok]

DaysInMonth == <<31, 29, 31, 30, 31, 30, 31, 31, 30, 31, 30, 31>>

RECURSIVE days_before_month(_)
days_before_month(m) ==
    IF m = 1 THEN 0 ELSE DaysInMonth[m - 1] + days_before_month(m - 1)

\* datetime.strptime(raw_date, "%Y-%m-%d").date(), as the day number
\* counted from 2024-01-01 (a Monday).
parse_iso_date(raw_date) ==
    IF /\ Len(raw_date) = 5
       /\ raw_date[1] = "2024"
       /\ raw_date[2] = "-"
       /\ raw_date[3] \in DOMAIN TwoDigits
       /\ raw_date[4] = "-"
       /\ raw_date[5] \in DOMAIN TwoDigits
       /\ TwoDigits[raw_date[3]] \in 1..12
       /\ TwoDigits[raw_date[5]] \in 1..DaysInMonth[TwoDigits[raw_date[3]]]
    THEN Ok(days_before_month(TwoDigits[raw_date[3]])
                + TwoDigits[raw_date[5]] - 1)
    ELSE Raise("InputValidationError")

_validate_object_keys(d, allowed_keys) ==
    IF DOMAIN d \ allowed_keys # {}
    THEN Raise("InputValidationError")
    ELSE Ok(None)

\* hash(x), which the test "x not in {...}" against a set needs.
hashable(x) == ~isinstance(x, "list") /\ ~isinstance(x, "dict")

_parse_constraint(d) ==
    LET keys == _validate_object_keys(d, {"type", "date", "start_date", "end_date"})
        raw_type == get(d, "type", None)
    IN  IF ~keys.ok THEN keys
        ELSE IF ~hashable(raw_type) THEN Raise("TypeError")
        ELSE IF ~(isinstance(raw_type, "str")
                      /\ raw_type.v \in {<<"date">>, <<"interval">>})
        THEN Raise("InputValidationError")
        ELSE IF raw_type.v = <<"date">>
        THEN IF "date" \notin DOMAIN d
             THEN Raise("InputValidationError")
             ELSE LET parsed_date == parse_iso_date(py_str(d["date"]))
                  IN  IF ~parsed_date.ok THEN parsed_date
                      ELSE Ok(Single(parsed_date.value))
        ELSE IF "start_date" \notin DOMAIN d \/ "end_date" \notin DOMAIN d
        THEN Raise("InputValidationError")
        ELSE LET parsed_start == parse_iso_date(py_str(d["start_date"]))
                 parsed_end == parse_iso_date(py_str(d["end_date"]))
             IN  IF ~parsed_start.ok THEN parsed_start
                 ELSE IF ~parsed_end.ok THEN parsed_end
                 ELSE IF parsed_start.value > parsed_end.value
                 THEN Raise("InputValidationError")
                 ELSE Ok(Interval(parsed_start.value, parsed_end.value))

RECURSIVE parse_constraints_from(_, _, _)

\* parsed_constraints.append(c), unless the call that computes c raised.
append_constraint(items, i, parsed_constraints, c) ==
    IF ~c.ok THEN c
    ELSE parse_constraints_from(items, i + 1, Append(parsed_constraints, c.value))

\* The for loop of _parse_constraint_list from position i on.
parse_constraints_from(items, i, parsed_constraints) ==
    IF i > Len(items)
    THEN Ok(parsed_constraints)
    ELSE IF ~isinstance(items[i], "dict")
    THEN Raise("InputValidationError")
    ELSE append_constraint(items, i, parsed_constraints,
                           _parse_constraint(items[i].v))

_parse_constraint_list(raw_constraints) ==
    IF raw_constraints = None THEN Ok(<<>>)
    ELSE IF ~isinstance(raw_constraints, "list")
    THEN Raise("InputValidationError")
    ELSE parse_constraints_from(raw_constraints.v, 1, <<>>)

\* The two lists are parsed hard first; the first exception is the one raised.
person_of(name, hard_constraints, soft_constraints) ==
    IF ~hard_constraints.ok THEN hard_constraints
    ELSE IF ~soft_constraints.ok THEN soft_constraints
    ELSE Ok(PersonConstraints(name, hard_constraints.value, soft_constraints.value))

_parse_person(d) ==
    LET keys == _validate_object_keys(d, {"name", "hard_constraints", "soft_constraints"})
        raw_name == get(d, "name", None)
    IN  IF ~keys.ok THEN keys
        ELSE IF ~isinstance(raw_name, "str") \/ strip(raw_name.v) = <<>>
        THEN Raise("InputValidationError")
        ELSE person_of(
                 strip(raw_name.v),
                 _parse_constraint_list(get(d, "hard_constraints", JList(<<>>))),
                 _parse_constraint_list(get(d, "soft_constraints", JList(<<>>))))

RECURSIVE parse_people_from(_, _, _, _)

\* The duplicate test and people.append(parsed_person), unless the call that
\* computes parsed_person raised.
append_person(raw_people, i, people, seen_names, parsed_person) ==
    IF ~parsed_person.ok THEN parsed_person
    ELSE IF parsed_person.value.name \in seen_names
    THEN Raise("InputValidationError")
    ELSE parse_people_from(raw_people, i + 1, Append(people, parsed_person.value),
                           seen_names \cup {parsed_person.value.name})

\* The for loop of parse_input_payload from position i on.
parse_people_from(raw_people, i, people, seen_names) ==
    IF i > Len(raw_people)
    THEN Ok(people)
    ELSE IF ~isinstance(raw_people[i], "dict")
    THEN Raise("InputValidationError")
    ELSE append_person(raw_people, i, people, seen_names,
                       _parse_person(raw_people[i].v))

\* return InputData(...), unless the loop over the people raised.
input_of(min_date, max_date, people) ==
    IF ~people.ok THEN people ELSE Ok(InputData(min_date, max_date, people.value))

parse_input_payload(d) ==
    LET keys == _validate_object_keys(d, {"min_date", "max_date", "people"})
    IN  IF ~keys.ok THEN keys
        ELSE IF "min_date" \notin DOMAIN d \/ "max_date" \notin DOMAIN d
        THEN Raise("InputValidationError")
        ELSE LET min_date == parse_iso_date(py_str(d["min_date"]))
                 max_date == parse_iso_date(py_str(d["max_date"]))
                 raw_people == get(d, "people", None)
             IN  IF ~min_date.ok THEN min_date
                 ELSE IF ~max_date.ok THEN max_date
                 ELSE IF min_date.value > max_date.value
                 THEN Raise("InputValidationError")
                 ELSE IF ~isinstance(raw_people, "list")
                 THEN Raise("InputValidationError")
                 ELSE IF raw_people.v = <<>>
                 THEN Raise("InputValidationError")
                 ELSE input_of(min_date.value, max_date.value,
                               parse_people_from(raw_people.v, 1, <<>>, {}))

\* The input file: missing, unreadable (OSError), not UTF-8, not JSON, or a
\* JSON text.
File(kind) == [t |-> kind]

JsonFile(value) == [t |-> "json", v |-> value]

load_input_from_json(file) ==
    IF file.t = "missing" THEN Raise("InputValidationError")
    ELSE IF file.t = "unreadable" THEN Raise("InputValidationError")
    ELSE IF file.t = "undecodable" THEN Raise("UnicodeDecodeError")
    ELSE IF file.t = "invalid_json" THEN Raise("InputValidationError")
    ELSE IF ~isinstance(file.v, "dict") THEN Raise("InputValidationError")
    ELSE parse_input_payload(file.v.v)

(***************************************************************************)
(* candidates.py                                                           *)
(***************************************************************************)
weekday(d) == d % 7

WeekendCandidate(start_date, end_date, days) ==
    [start_date |-> start_date, end_date |-> end_date, days |-> days]

\* Variant: the offset subtracted the wrong way round.
_first_friday_offset_reversed(input_date) ==
    LET day_offset == (weekday(input_date) - friday_weekday) % 7
    IN  input_date + day_offset

_first_friday_on_or_after(input_date) ==
    LET day_offset == (friday_weekday - weekday(input_date)) % 7
    IN  input_date + day_offset

\* Variant: the loop advances a fortnight instead of a week.
RECURSIVE generate_loop_fortnight(_, _, _, _)
generate_loop_fortnight(current_friday, min_date, max_date, acc) ==
    IF ~(current_friday <= max_date)
    THEN acc
    ELSE LET saturday == current_friday + 1
             sunday == current_friday + 2
         IN  IF sunday > max_date
             THEN acc
             ELSE generate_loop_fortnight(
                      current_friday + 14, min_date, max_date,
                      IF current_friday >= min_date
                      THEN Append(acc,
                                  WeekendCandidate(
                                      current_friday, sunday,
                                      <<current_friday, saturday, sunday>>))
                      ELSE acc)

\* Variant: the loop stops when the Sunday is the last day of the window.
RECURSIVE generate_loop_exclusive(_, _, _, _)
generate_loop_exclusive(current_friday, min_date, max_date, acc) ==
    IF ~(current_friday <= max_date)
    THEN acc
    ELSE LET saturday == current_friday + 1
             sunday == current_friday + 2
         IN  IF sunday >= max_date
             THEN acc
             ELSE generate_loop_exclusive(
                      current_friday + 7, min_date, max_date,
                      IF current_friday >= min_date
                      THEN Append(acc,
                                  WeekendCandidate(
                                      current_friday, sunday,
                                      <<current_friday, saturday, sunday>>))
                      ELSE acc)

\* The while loop of generate_weekend_candidates, one iteration per unfolding.
RECURSIVE generate_loop(_, _, _, _)
generate_loop(current_friday, min_date, max_date, acc) ==
    IF ~(current_friday <= max_date)
    THEN acc
    ELSE LET saturday == current_friday + 1
             sunday == current_friday + 2
         IN  IF sunday > max_date
             THEN acc
             ELSE generate_loop(
                      current_friday + 7, min_date, max_date,
                      IF current_friday >= min_date
                      THEN Append(acc,
                                  WeekendCandidate(
                                      current_friday, sunday,
                                      <<current_friday, saturday, sunday>>))
                      ELSE acc)

generate_weekend_candidates(min_date, max_date) ==
    LET first_friday == _first_friday_on_or_after(min_date)
    IN  generate_loop(first_friday, min_date, max_date, <<>>)

(***************************************************************************)
(* optimizer.py: per-person impact                                         *)
(***************************************************************************)
\* sorted(set): the elements of a finite set of dates, ascending.
RECURSIVE sorted(_)
sorted(S) ==
    IF S = {}
    THEN <<>>
    ELSE LET m == CHOOSE x \in S : \A y \in S : x <= y
         IN  <<m>> \o sorted(S \ {m})

\* [day for day in weekend_days if constraint.overlaps_date(day)]
matched_days(constraint, weekend_days) ==
    SelectSeq(weekend_days, LAMBDA day : overlaps_date(constraint, day))

_constraint_overlaps_any_weekend_day(constraint, weekend_days) ==
    \E i \in 1..Len(weekend_days) : overlaps_date(constraint, weekend_days[i])

\* Variant: a constraint is recorded once for every day it covers.
RECURSIVE scan_constraints_per_day(_, _, _, _, _)
scan_constraints_per_day(constraints, weekend_days, i, overlapped_dates, matched_constraints) ==
    IF i > Len(constraints)
    THEN [overlapped_dates |-> overlapped_dates,
          matched_constraints |-> matched_constraints]
    ELSE LET md == matched_days(constraints[i], weekend_days)
         IN  scan_constraints_per_day(
                 constraints, weekend_days, i + 1,
                 overlapped_dates \cup {md[k] : k \in 1..Len(md)},
                 matched_constraints
                     \o [k \in 1..Len(md) |-> describe(constraints[i])])

\* The for loop shared by both impact functions: the pair
\* (overlapped_dates, matched_constraints) after scanning constraints[i..].
RECURSIVE scan_constraints(_, _, _, _, _)
scan_constraints(constraints, weekend_days, i, overlapped_dates, matched_constraints) ==
    IF i > Len(constraints)
    THEN [overlapped_dates |-> overlapped_dates,
          matched_constraints |-> matched_constraints]
    ELSE LET md == matched_days(constraints[i], weekend_days)
         IN  IF md # <<>>
             THEN scan_constraints(
                      constraints, weekend_days, i + 1,
                      overlapped_dates \cup {md[k] : k \in 1..Len(md)},
                      Append(matched_constraints, describe(constraints[i])))
             ELSE scan_constraints(constraints, weekend_days, i + 1,
                                   overlapped_dates, matched_constraints)

PersonImpact(person_name, overlapped_dates, matched_constraints) ==
    [person_name |-> person_name,
     overlapped_dates |-> overlapped_dates,
     matched_constraints |-> matched_constraints]

_evaluate_person_hard_impact(person, weekend_days) ==
    LET r == scan_constraints(person.hard_constraints, weekend_days, 1, {}, <<>>)
    IN  IF r.overlapped_dates = {}
        THEN None
        ELSE PersonImpact(person.name, sorted(r.overlapped_dates),
                          r.matched_constraints)

_evaluate_person_soft_impact(person, weekend_days) ==
    LET r == scan_constraints(person.soft_constraints, weekend_days, 1, {}, <<>>)
    IN  IF r.overlapped_dates = {}
        THEN None
        ELSE PersonImpact(person.name, sorted(r.overlapped_dates),
                          r.matched_constraints)

(***************************************************************************)
(* optimizer.py: weekend evaluation                                        *)
(***************************************************************************)
WeekendEvaluation(wk, selection_mode, hard_affected_people_count, fully_feasible_people_count, affected_people_count, total_soft_overlap_days, affected_people, hard_affected_people) ==
    [weekend |-> wk,
     selection_mode |-> selection_mode,
     hard_affected_people_count |-> hard_affected_people_count,
     fully_feasible_people_count |-> fully_feasible_people_count,
     affected_people_count |-> affected_people_count,
     total_soft_overlap_days |-> total_soft_overlap_days,
     affected_people |-> affected_people,
     hard_affected_people |-> hard_affected_people]

\* for person in people: impact = f(person, days); append unless None
RECURSIVE hard_impacts(_, _, _)
hard_impacts(people, weekend_days, i) ==
    IF i > Len(people)
    THEN <<>>
    ELSE LET hard_impact == _evaluate_person_hard_impact(people[i], weekend_days)
         IN  (IF hard_impact # None THEN <<hard_impact>> ELSE <<>>)
             \o hard_impacts(people, weekend_days, i + 1)

RECURSIVE soft_impacts(_, _, _)
soft_impacts(people, weekend_days, i) ==
    IF i > Len(people)
    THEN <<>>
    ELSE LET impact == _evaluate_person_soft_impact(people[i], weekend_days)
         IN  (IF impact # None THEN <<impact>> ELSE <<>>)
             \o soft_impacts(people, weekend_days, i + 1)

\* sum(len(person_impact.overlapped_dates) for person_impact in affected_people)
RECURSIVE sum_overlap_days(_, _)
sum_overlap_days(affected_people, i) ==
    IF i > Len(affected_people)
    THEN 0
    ELSE Len(affected_people[i].overlapped_dates)
         + sum_overlap_days(affected_people, i + 1)

\* Variant: a hard-affected person is not counted as fully feasible.
_evaluate_weekend_relaxed_hard_infeasible(data, wk) ==
    LET hard_affected_people == hard_impacts(data.people, wk.days, 1)
        affected_people == soft_impacts(data.people, wk.days, 1)
        affected_people_count == Len(affected_people)
        hard_affected_people_count == Len(hard_affected_people)
        fully_feasible_count == Len(data.people) - affected_people_count
                                    - hard_affected_people_count
        total_soft_overlap_days == sum_overlap_days(affected_people, 1)
    IN  WeekendEvaluation(wk, "fallback_hard", hard_affected_people_count,
                          fully_feasible_count, affected_people_count,
                          total_soft_overlap_days, affected_people,
                          hard_affected_people)

_evaluate_weekend_relaxed(data, wk) ==
    LET hard_affected_people == hard_impacts(data.people, wk.days, 1)
        affected_people == soft_impacts(data.people, wk.days, 1)
        affected_people_count == Len(affected_people)
        fully_feasible_count == Len(data.people) - affected_people_count
        hard_affected_people_count == Len(hard_affected_people)
        total_soft_overlap_days == sum_overlap_days(affected_people, 1)
    IN  WeekendEvaluation(wk, "fallback_hard", hard_affected_people_count,
                          fully_feasible_count, affected_people_count,
                          total_soft_overlap_days, affected_people,
                          hard_affected_people)

\* Variant: a passing candidate's relaxed evaluation is returned as it is.
evaluate_weekend_untagged(data, wk) ==
    LET ev == _evaluate_weekend_relaxed(data, wk)
    IN  IF ev.hard_affected_people_count > 0 THEN None ELSE ev

\* Variant: the strict copy drops the soft impact list as well.
evaluate_weekend_clears_soft(data, wk) ==
    LET ev == _evaluate_weekend_relaxed(data, wk)
    IN  IF ev.hard_affected_people_count > 0
        THEN None
        ELSE WeekendEvaluation(ev.weekend, "strict_hard", 0,
                               ev.fully_feasible_people_count,
                               ev.affected_people_count,
                               ev.total_soft_overlap_days,
                               <<>>, <<>>)

evaluate_weekend(data, wk) ==
    LET ev == _evaluate_weekend_relaxed(data, wk)
    IN  IF ev.hard_affected_people_count > 0
        THEN None
        ELSE WeekendEvaluation(ev.weekend, "strict_hard", 0,
                               ev.fully_feasible_people_count,
                               ev.affected_people_count,
                               ev.total_soft_overlap_days,
                               ev.affected_people, <<>>)

(***************************************************************************)
(* optimizer.py: ranking                                                   *)
(***************************************************************************)
\* Python's "<" on two tuples of integers of the same length.
tuple_less(a, b) ==
    \E i \in 1..Len(a) :
        /\ a[i] < b[i]
        /\ \A j \in 1..(i - 1) : a[j] = b[j]

\* list.sort(key=...) is stable: an item goes behind every item already
\* placed whose key is not greater than its own.
RECURSIVE insert_sorted(_, _)
insert_sorted(acc, p) ==
    IF acc = <<>>
    THEN <<p>>
    ELSE IF tuple_less(p[1], Head(acc)[1])
         THEN <<p>> \o acc
         ELSE <<Head(acc)>> \o insert_sorted(Tail(acc), p)

RECURSIVE sort_pairs(_, _, _)
sort_pairs(pairs, i, acc) ==
    IF i > Len(pairs)
    THEN acc
    ELSE sort_pairs(pairs, i + 1, insert_sorted(acc, pairs[i]))

\* items.sort(key=...), keys[i] being the key of items[i].
list_sort(items, keys) ==
    LET pairs == [i \in 1..Len(items) |-> <<keys[i], items[i]>>]
        placed == sort_pairs(pairs, 1, <<>>)
    IN  [i \in 1..Len(items) |-> placed[i][2]]

\* items[:n], with Python's reading of a negative n.
slice_to(items, n) ==
    LET stop == IF n < 0
                THEN (IF Len(items) + n < 0 THEN 0 ELSE Len(items) + n)
                ELSE (IF n > Len(items) THEN Len(items) ELSE n)
    IN  SubSeq(items, 1, stop)

\* Variant: the fully-feasible count is not negated.
strict_key_not_negated(item) ==
    <<item.fully_feasible_people_count,
      item.affected_people_count,
      item.total_soft_overlap_days,
      item.weekend.start_date>>

strict_key(item) ==
    <<0 - item.fully_feasible_people_count,
      item.affected_people_count,
      item.total_soft_overlap_days,
      item.weekend.start_date>>

\* Variant: the fallback sort reuses the strict key.
relaxed_key_as_strict(item) ==
    <<0 - item.fully_feasible_people_count,
      item.affected_people_count,
      item.total_soft_overlap_days,
      item.weekend.start_date>>

\* Variant: the latest weekend wins a tie.
relaxed_key_latest_first(item) ==
    <<item.hard_affected_people_count,
      item.affected_people_count,
      item.total_soft_overlap_days,
      0 - item.weekend.start_date>>

relaxed_key(item) ==
    <<item.hard_affected_people_count,
      item.affected_people_count,
      item.total_soft_overlap_days,
      item.weekend.start_date>>

strict_keys(items) == [i \in 1..Len(items) |-> strict_key(items[i])]

relaxed_keys(items) == [i \in 1..Len(items) |-> relaxed_key(items[i])]

\* strict_evaluations.sort(key=...) and relaxed_evaluations.sort(key=...)
sort_strict(items) == list_sort(items, strict_keys(items))

sort_relaxed(items) == list_sort(items, relaxed_keys(items))

\* [ev for candidate in candidates if (ev := evaluate_weekend(..)) is not None]
strict_evaluations(data, cands) ==
    SelectSeq([i \in 1..Len(cands) |-> evaluate_weekend(data, cands[i])],
              LAMBDA ev : ev # None)

relaxed_evaluations(data, cands) ==
    [i \in 1..Len(cands) |-> _evaluate_weekend_relaxed(data, cands[i])]

\* Variant: the strict result is filled up with fallback evaluations.
two_phase_rank_filled(data, cands, n) ==
    LET strict == sort_strict(strict_evaluations(data, cands))
    IN  slice_to(strict \o sort_relaxed(
                     SelectSeq(relaxed_evaluations(data, cands),
                               LAMBDA ev : ev.hard_affected_people_count > 0)),
                 n)

\* Variant: no fallback phase.
two_phase_rank_strict_only(data, cands, n) ==
    slice_to(sort_strict(strict_evaluations(data, cands)), n)

\* rank_weekends below its top_n guard.
two_phase_rank(data, cands, n) ==
    LET strict == sort_strict(strict_evaluations(data, cands))
    IN  IF strict # <<>>
        THEN slice_to(strict, n)
        ELSE slice_to(sort_relaxed(relaxed_evaluations(data, cands)), n)

\* Variant: the top_n guard is missing.
rank_weekends_unguarded(data, cands, n) ==
    two_phase_rank(data, cands, n)

rank_weekends(data, cands, n) ==
    IF n <= 0
    THEN <<>>
    ELSE two_phase_rank(data, cands, n)

(***************************************************************************)
(* Inputs.  A wide sweep over every window of 0..MaxDay with one           *)
(* unconstrained person, and constrained groups of people over windows     *)
(* that start on the Friday of week 0 and hold 1 to MaxWeeks + 1 weekends. *)
(***************************************************************************)
Names == <<"ana", "rui", "eva", "ivo">>

HardPool == {Single(5), Interval(6, 12), Interval(4, 20)}

SoftPool == {Single(11), Interval(4, 5), Interval(5, 18)}

\* The pairs (hard list, soft list) that hold exactly cost constraints.
PersonConfigs(cost) ==
    UNION {[1..h -> HardPool] \X [1..(cost - h) -> SoftPool] : h \in 0..cost}

\* The lists of n people that hold at most budget constraints together.
RECURSIVE PeopleOf(_, _)
PeopleOf(n, budget) ==
    IF n = 0
    THEN {<<>>}
    ELSE UNION {{Append(ps, PersonConstraints(Names[n], cfg[1], cfg[2])) :
                     ps \in PeopleOf(n - 1, budget - cost),
                     cfg \in PersonConfigs(cost)} : cost \in 0..budget}

PeopleLists == UNION {PeopleOf(n, MaxConstraints) : n \in 1..MaxPeople}

TopNs == (0 - 1)..MaxTopN

InitWide ==
    \E lo \in 0..MaxDay : \E hi \in lo..MaxDay :
        input_data = InputData(lo, hi, <<PersonConstraints(Names[1], <<>>, <<>>)>>)

InitConstrained ==
    \E k \in 0..MaxWeeks : \E people \in PeopleLists :
        input_data = InputData(friday_weekday, friday_weekday + 2 + 7 * k, people)

Init ==
    /\ InitWide \/ InitConstrained
    /\ candidates = <<>>
    /\ top_n = DefaultTopN
    /\ weekend = None
    /\ evaluation = None
    /\ ranked = <<>>
    /\ impact_person = None
    /\ impact_hard = None
    /\ impact_soft = None
    /\ args = None
    /\ fault = "none"
    /\ payload = None
    /\ error = "none"
    /\ exit_code = <<>>
    /\ stdout = <<>>
    /\ pc = "start"

(***************************************************************************)
(* Operations.                                                             *)
(***************************************************************************)
GenerateWeekendCandidates ==
    /\ pc = "start"
    /\ candidates' = generate_weekend_candidates(input_data.min_date,
                                                 input_data.max_date)
    /\ pc' = "generated"
    /\ UNCHANGED <<input_data, top_n, weekend, evaluation, ranked>>
    /\ UNCHANGED <<impact_vars, cli_vars>>

EvaluateWeekend ==
    /\ pc = "generated"
    /\ \E i \in 1..Len(candidates) :
           /\ weekend' = candidates[i]
           /\ evaluation' = evaluate_weekend(input_data, candidates[i])
    /\ pc' = "evaluated"
    /\ UNCHANGED <<input_data, candidates, top_n, ranked>>
    /\ UNCHANGED <<impact_vars, cli_vars>>

\* _evaluate_weekend_relaxed called on one of the candidates.
EvaluateWeekendRelaxed ==
    /\ pc = "generated"
    /\ \E i \in 1..Len(candidates) :
           /\ weekend' = candidates[i]
           /\ evaluation' = _evaluate_weekend_relaxed(input_data, candidates[i])
    /\ pc' = "evaluated_relaxed"
    /\ UNCHANGED <<input_data, candidates, top_n, ranked>>
    /\ UNCHANGED <<impact_vars, cli_vars>>

\* Both impact functions called on one person and one of the candidates.
EvaluatePersonImpact ==
    /\ pc = "generated"
    /\ \E i \in 1..Len(candidates) : \E p \in 1..Len(input_data.people) :
           /\ weekend' = candidates[i]
           /\ impact_person' = input_data.people[p]
           /\ impact_hard' = _evaluate_person_hard_impact(input_data.people[p],
                                                          candidates[i].days)
           /\ impact_soft' = _evaluate_person_soft_impact(input_data.people[p],
                                                          candidates[i].days)
    /\ pc' = "impact"
    /\ UNCHANGED <<input_data, candidates, top_n, evaluation, ranked, cli_vars>>

\* Variant: the candidate list itself is sorted, not a new list.
RankWeekendsSortsInPlace ==
    /\ pc = "generated"
    /\ \E n \in TopNs :
           /\ top_n' = n
           /\ ranked' = rank_weekends(input_data, candidates, n)
    /\ candidates' =
           LET placed == sort_relaxed(relaxed_evaluations(input_data, candidates))
           IN  [i \in 1..Len(placed) |-> placed[i].weekend]
    /\ pc' = "ranked"
    /\ UNCHANGED <<input_data, weekend, evaluation>>
    /\ UNCHANGED <<impact_vars, cli_vars>>

RankWeekends ==
    /\ pc = "generated"
    /\ \E n \in TopNs :
           /\ top_n' = n
           /\ ranked' = rank_weekends(input_data, candidates, n)
    /\ pc' = "ranked"
    /\ UNCHANGED <<input_data, candidates, weekend, evaluation>>
    /\ UNCHANGED <<impact_vars, cli_vars>>

\* rank_weekends called a second time with the arguments of the first call.
RankWeekendsAgain ==
    /\ pc = "ranked"
    /\ ranked' = rank_weekends(input_data, candidates, top_n)
    /\ pc' = "ranked_again"
    /\ UNCHANGED <<input_data, candidates, top_n, weekend, evaluation>>
    /\ UNCHANGED <<impact_vars, cli_vars>>

Next ==
    \/ GenerateWeekendCandidates
    \/ EvaluateWeekend
    \/ EvaluateWeekendRelaxed
    \/ EvaluatePersonImpact
    \/ RankWeekends
    \/ RankWeekendsAgain

Spec == Init /\ [][Next]_vars

(***************************************************************************)
(* reporting.py and cli.py                                                 *)
(***************************************************************************)
\* date.isoformat() of a day of 2024.
_to_iso(value) ==
    LET month == CHOOSE m \in 1..12 :
                     /\ days_before_month(m) <= value
                     /\ value < days_before_month(m) + DaysInMonth[m]
    IN  <<"2024", "-", TwoDigitTokens[month], "-",
          TwoDigitTokens[value - days_before_month(month) + 1]>>

iso_dates(days) == [i \in DOMAIN days |-> _to_iso(days[i])]

affected_entry(impact) ==
    [name |-> impact.person_name,
     overlapped_dates |-> iso_dates(impact.overlapped_dates),
     matched_soft_constraints |-> impact.matched_constraints]

hard_affected_entry(impact) ==
    [name |-> impact.person_name,
     overlapped_dates |-> iso_dates(impact.overlapped_dates),
     matched_hard_constraints |-> impact.matched_constraints]

option_entry(index, result) ==
    [rank |-> index,
     selection_mode |-> result.selection_mode,
     weekend |-> [start_date |-> _to_iso(result.weekend.start_date),
                  end_date |-> _to_iso(result.weekend.end_date),
                  days |-> iso_dates(result.weekend.days)],
     score |-> [hard_affected_people_count |-> result.hard_affected_people_count,
                fully_feasible_people_count |-> result.fully_feasible_people_count,
                affected_people_count |-> result.affected_people_count,
                total_soft_overlap_days |-> result.total_soft_overlap_days],
     hard_affected_people |->
         [i \in DOMAIN result.hard_affected_people |->
             hard_affected_entry(result.hard_affected_people[i])],
     affected_people |->
         [i \in DOMAIN result.affected_people |->
             affected_entry(result.affected_people[i])]]

build_result_payload(data, ranked_results) ==
    [search_window |-> [min_date |-> _to_iso(data.min_date),
                        max_date |-> _to_iso(data.max_date)],
     participant_count |-> Len(data.people),
     options |-> [i \in DOMAIN ranked_results |-> option_entry(i, ranked_results[i])]]

\* What print(format_result_json(payload)) or print(format_result_text(payload))
\* writes.
format_result(output_format, result_payload) ==
    [format |-> IF output_format = "json" THEN "json" ELSE "text",
     report |-> result_payload]

SuccessStatus == 0
GenericFailureStatus == 1
ValidationFailureStatus == 2
ArgumentErrorStatus == 2
MissingApiKeyStatus == 2
NarrativeFailureStatus == 1

\* Variant: every exception of the try block returns the validation status.
exit_status_always_validation(exception) == ValidationFailureStatus

\* The two except clauses of run_cli.
exit_status(exception) ==
    IF exception = "InputValidationError"
    THEN ValidationFailureStatus
    ELSE GenericFailureStatus

(***************************************************************************)
(* Raw payloads for parse_input_payload, and the specification that        *)
(* parses them.                                                            *)
(***************************************************************************)
SeqsUpTo(S, n) == UNION {[1..k -> S] : k \in 0..n}

Iso(month, day) == JStr(<<"2024", "-", month, "-", day>>)

DateConstraintOn(raw_date) == ("type" :> JStr(<<"date">>)) @@ ("date" :> raw_date)

IntervalFrom(raw_start) == ("type" :> JStr(<<"interval">>)) @@ ("start_date" :> raw_start)

IntervalBetween(raw_start, raw_end) == IntervalFrom(raw_start) @@ ("end_date" :> raw_end)

RawConstraintPool ==
    { JStr(<<"date">>),
      JDict(DateConstraintOn(Iso("01", "05"))),
      JDict(DateConstraintOn(Iso("02", "30"))),
      JDict(DateConstraintOn(None)),
      JDict("type" :> JStr(<<"date">>)),
      JDict(DateConstraintOn(Iso("01", "07")) @@ ("start_date" :> JInt(7))),
      JDict(DateConstraintOn(Iso("01", "07")) @@ ("note" :> JStr(<<"ana">>))),
      JDict(IntervalBetween(Iso("01", "05"), Iso("01", "07"))),
      JDict(IntervalBetween(Iso("01", "07"), Iso("01", "07"))),
      JDict(IntervalBetween(Iso("01", "07"), Iso("01", "05"))),
      JDict(IntervalBetween(Iso("01", "05"), Iso("13", "01"))),
      JDict(IntervalFrom(Iso("01", "05"))),
      JDict(("type" :> JStr(<<" ", "date">>)) @@ ("date" :> Iso("01", "05"))),
      JDict(("type" :> JInt(7)) @@ ("date" :> Iso("01", "05"))),
      JDict("date" :> Iso("01", "05")),
      JDict(("type" :> JList(<<>>)) @@ ("date" :> Iso("01", "05"))) }

RawConstraintLists ==
    {None, JInt(7)} \cup {JList(l) : l \in SeqsUpTo(RawConstraintPool, 1)}

RawNames ==
    {None, JInt(7)} \cup {JStr(n) : n \in SeqsUpTo({" ", "ana", "rui"}, MaxNameLen)}

RawPerson(raw_name) == JDict("name" :> raw_name)

RawWindow(raw_min, raw_max) == ("min_date" :> raw_min) @@ ("max_date" :> raw_max)

RawWindows ==
    { RawWindow(Iso("01", "05"), Iso("01", "07")),
      RawWindow(Iso("01", "05"), Iso("01", "05")),
      RawWindow(Iso("01", "07"), Iso("01", "05")),
      RawWindow(Iso("01", "5"), Iso("02", "12")),
      RawWindow(Iso("13", "01"), Iso("01", "07")),
      RawWindow(Iso("01", "05"), Iso("01", "32")),
      RawWindow(JInt(7), Iso("01", "07")),
      RawWindow(Iso("01", "05"), None),
      "min_date" :> Iso("01", "05"),
      "max_date" :> Iso("01", "07"),
      RawWindow(Iso("01", "05"), Iso("01", "07")) @@ ("note" :> JStr(<<"ana">>)) }

\* Every window, with every shape of the "people" entry.
InitRawWindows ==
    \E w \in RawWindows :
        \E raw_people \in {None, JInt(7), JList(<<>>), JList(<<JStr(<<"ana">>)>>),
                            JList(<<RawPerson(JStr(<<"ana">>))>>),
                            JList(<<JDict(("name" :> JStr(<<"ana">>))
                                          @@ ("age" :> JInt(7)))>>)} :
            payload = JDict(w @@ ("people" :> raw_people))
                \/ (raw_people = None /\ payload = JDict(w))

\* Every list of raw names.
InitRawNames ==
    \E raw_names \in SeqsUpTo(RawNames, MaxRawPeople) :
        payload = JDict(RawWindow(Iso("01", "05"), Iso("01", "07"))
                        @@ ("people" :> JList([i \in DOMAIN raw_names |->
                                                  IF raw_names[i] = None
                                                  THEN JDict(<<>>)
                                                  ELSE RawPerson(raw_names[i])])))

\* One person with every list of raw constraints.
InitRawConstraints ==
    \E hard \in SeqsUpTo(RawConstraintPool, MaxRawConstraints) :
        \E soft \in RawConstraintLists :
            \E with_soft \in BOOLEAN :
                payload = JDict(RawWindow(Iso("01", "05"), Iso("01", "07"))
                                @@ ("people" :> JList(<<JDict(
                                       ("name" :> JStr(<<"ana", " ">>))
                                       @@ ("hard_constraints" :> JList(hard))
                                       @@ (IF with_soft
                                           THEN "soft_constraints" :> soft
                                           ELSE <<>>))>>)))

InitParse ==
    /\ InitRawWindows \/ InitRawNames \/ InitRawConstraints
    /\ input_data = None
    /\ candidates = <<>>
    /\ top_n = DefaultTopN
    /\ weekend = None
    /\ evaluation = None
    /\ ranked = <<>>
    /\ impact_person = None
    /\ impact_hard = None
    /\ impact_soft = None
    /\ args = None
    /\ fault = "none"
    /\ error = "none"
    /\ exit_code = <<>>
    /\ stdout = <<>>
    /\ pc = "raw"

\* input_data = parse_input_payload(payload), or the exception it raises.
ParseInputPayload ==
    /\ pc = "raw"
    /\ input_data' = returned(parse_input_payload(payload.v))
    /\ error' = raised(parse_input_payload(payload.v))
    /\ pc' = "parsed"
    /\ UNCHANGED <<candidates, top_n, weekend, evaluation, ranked, impact_vars>>
    /\ UNCHANGED <<args, fault, payload, exit_code, stdout>>

NextParse == ParseInputPayload

SpecParse == InitParse /\ [][NextParse]_vars

(***************************************************************************)
(* Command lines and input files for run_cli, and the specification that   *)
(* runs them.                                                              *)
(***************************************************************************)
CliWindows ==
    { RawWindow(Iso("01", "05"), Iso("01", "07")),
      RawWindow(Iso("01", "05"), Iso("01", "14")),
      RawWindow(Iso("01", "01"), Iso("01", "04")),
      RawWindow(Iso("01", "07"), Iso("01", "05")) }

CliHardLists ==
    { <<>>,
      <<JDict(DateConstraintOn(Iso("01", "05")))>>,
      <<JDict(IntervalBetween(Iso("01", "06"), Iso("01", "12")))>>,
      <<JDict(IntervalBetween(Iso("01", "07"), Iso("01", "05")))>>,
      <<JDict(("type" :> JList(<<>>)) @@ ("date" :> Iso("01", "05")))>> }

CliPerson(raw_name, hard) ==
    JDict(("name" :> JStr(raw_name)) @@ ("hard_constraints" :> JList(hard)))

CliSoftPerson ==
    JDict(("name" :> JStr(<<"rui">>))
          @@ ("soft_constraints" :>
                 JList(<<JDict(DateConstraintOn(Iso("01", "06")))>>)))

CliPeople ==
    UNION {{<<CliPerson(<<"ana">>, hard)>>,
            <<CliPerson(<<"ana">>, hard), CliSoftPerson>>} : hard \in CliHardLists}
        \cup {<<CliPerson(<<"ana">>, <<>>), CliPerson(<<" ", "ana">>, <<>>)>>}

CliFiles ==
    {File("missing"), File("unreadable"), File("undecodable"), File("invalid_json"),
     JsonFile(JList(<<>>)), JsonFile(None)}
        \cup {JsonFile(JDict(w @@ ("people" :> JList(people)))) :
                  w \in CliWindows, people \in CliPeople}

\* api_key: args.openai_api_key or the OPENAI_API_KEY variable is non-empty.
CliArgs ==
    [input : CliFiles,
     top_n : TopNs,
     output_format : {"text", "json"},
     include_openai_narrative : BOOLEAN,
     api_key : BOOLEAN]

\* An exception that is not an InputValidationError and that the environment
\* raises in one call of run_cli: date arithmetic past date.max in candidate
\* generation, exhausted memory in ranking or payload building, a failed
\* request in the narrative call.
Faults == {"none", "generate", "rank", "payload", "narrative"}

InitCli ==
    /\ args \in {a \in CliArgs : a.include_openai_narrative \/ ~a.api_key}
    /\ fault \in Faults
    /\ input_data = None
    /\ candidates = <<>>
    /\ top_n = DefaultTopN
    /\ weekend = None
    /\ evaluation = None
    /\ ranked = <<>>
    /\ impact_person = None
    /\ impact_hard = None
    /\ impact_soft = None
    /\ payload = None
    /\ error = "none"
    /\ exit_code = <<>>
    /\ stdout = <<>>
    /\ pc = "cli_start"

\* return status, or the SystemExit that parser.error raises.
Exit(exception, status) ==
    /\ error' = exception
    /\ exit_code' = <<status>>
    /\ pc' = "exited"

\* The except clauses of the try block.
HandleException(exception) == Exit(exception, exit_status(exception))

\* Variant: only a negative --top-n is an argument error.
CliCheckTopNAllowsZero ==
    /\ pc = "cli_start"
    /\ IF args.top_n < 0
       THEN Exit("SystemExit", ArgumentErrorStatus)
       ELSE pc' = "args_ok" /\ UNCHANGED <<error, exit_code>>
    /\ UNCHANGED <<input_data, candidates, top_n, weekend, evaluation, ranked>>
    /\ UNCHANGED <<impact_vars, args, fault, payload, stdout>>

\* if args.top_n <= 0: parser.error(...)
CliCheckTopN ==
    /\ pc = "cli_start"
    /\ IF args.top_n <= 0
       THEN Exit("SystemExit", ArgumentErrorStatus)
       ELSE pc' = "args_ok" /\ UNCHANGED <<error, exit_code>>
    /\ UNCHANGED <<input_data, candidates, top_n, weekend, evaluation, ranked>>
    /\ UNCHANGED <<impact_vars, args, fault, payload, stdout>>

\* input_data = load_input_from_json(args.input)
CliLoadInput ==
    /\ pc = "args_ok"
    /\ IF load_input_from_json(args.input).ok
       THEN /\ input_data' = returned(load_input_from_json(args.input))
            /\ pc' = "loaded"
            /\ UNCHANGED <<error, exit_code>>
       ELSE /\ HandleException(raised(load_input_from_json(args.input)))
            /\ UNCHANGED input_data
    /\ UNCHANGED <<candidates, top_n, weekend, evaluation, ranked>>
    /\ UNCHANGED <<impact_vars, args, fault, payload, stdout>>

\* candidates = generate_weekend_candidates(...)
CliGenerateCandidates ==
    /\ pc = "loaded"
    /\ IF fault = "generate"
       THEN HandleException("OverflowError") /\ UNCHANGED candidates
       ELSE /\ candidates' = generate_weekend_candidates(input_data.min_date,
                                                         input_data.max_date)
            /\ pc' = "candidates"
            /\ UNCHANGED <<error, exit_code>>
    /\ UNCHANGED <<input_data, top_n, weekend, evaluation, ranked>>
    /\ UNCHANGED <<impact_vars, args, fault, payload, stdout>>

\* ranked = rank_weekends(..., top_n=args.top_n)
CliRankWeekends ==
    /\ pc = "candidates"
    /\ top_n' = args.top_n
    /\ IF fault = "rank"
       THEN HandleException("MemoryError") /\ UNCHANGED ranked
       ELSE /\ ranked' = rank_weekends(input_data, candidates, args.top_n)
            /\ pc' = "ranking"
            /\ UNCHANGED <<error, exit_code>>
    /\ UNCHANGED <<input_data, candidates, weekend, evaluation>>
    /\ UNCHANGED <<impact_vars, args, fault, payload, stdout>>

\* payload = build_result_payload(...)
CliBuildResultPayload ==
    /\ pc = "ranking"
    /\ IF fault = "payload"
       THEN HandleException("MemoryError") /\ UNCHANGED payload
       ELSE /\ payload' = build_result_payload(input_data, ranked)
            /\ pc' = "payload"
            /\ UNCHANGED <<error, exit_code>>
    /\ UNCHANGED <<input_data, candidates, top_n, weekend, evaluation, ranked>>
    /\ UNCHANGED <<impact_vars, args, fault, stdout>>

\* print(format_result_json(payload)) or print(format_result_text(payload))
CliPrintReport ==
    /\ pc = "payload"
    /\ stdout' = Append(stdout, format_result(args.output_format, payload))
    /\ pc' = "report"
    /\ UNCHANGED <<input_data, candidates, top_n, weekend, evaluation, ranked>>
    /\ UNCHANGED <<impact_vars, args, fault, payload, error, exit_code>>

\* The optional narrative, and return 0.
CliNarrative ==
    /\ pc = "report"
    /\ IF ~args.include_openai_narrative
       THEN Exit(error, SuccessStatus) /\ UNCHANGED stdout
       ELSE IF ~args.api_key
       THEN Exit(error, MissingApiKeyStatus) /\ UNCHANGED stdout
       ELSE IF fault = "narrative"
       THEN Exit("RuntimeError", NarrativeFailureStatus) /\ UNCHANGED stdout
       ELSE /\ stdout' = stdout \o <<"OpenAI Narrative:", "narrative">>
            /\ Exit(error, SuccessStatus)
    /\ UNCHANGED <<input_data, candidates, top_n, weekend, evaluation, ranked>>
    /\ UNCHANGED <<impact_vars, args, fault, payload>>

NextCli ==
    \/ CliCheckTopN
    \/ CliLoadInput
    \/ CliGenerateCandidates
    \/ CliRankWeekends
    \/ CliBuildResultPayload
    \/ CliPrintReport
    \/ CliNarrative

SpecCli == InitCli /\ [][NextCli]_vars

(***************************************************************************)
(* Properties of the candidate generator.                                  *)
(***************************************************************************)
Generated == pc # "start"

\* C1: every generated candidate starts on a Friday, ends two days later,
\* lists exactly its three consecutive days, and lies inside the window
\* [min_date, max_date].
C1_CandidatesAreWeekendsInWindow ==
    Generated =>
        \A i \in 1..Len(candidates) :
            LET c == candidates[i]
            IN  /\ c.start_date % 7 = 4
                /\ c.end_date = c.start_date + 2
                /\ c.days = <<c.start_date, c.start_date + 1, c.start_date + 2>>
                /\ input_data.min_date <= c.start_date
                /\ c.end_date <= input_data.max_date

\* A window that does not start on a Friday and holds two weekends or more.
C1_Witness ==
    /\ pc = "generated"
    /\ input_data.min_date % 7 # 4
    /\ Len(candidates) >= 2

\* C2: the generated sequence ascends in steps of exactly 7 days and holds
\* no candidate twice.
C2_CandidatesAscendByWeek ==
    Generated =>
        /\ \A i \in 1..(Len(candidates) - 1) :
               candidates[i + 1].start_date = candidates[i].start_date + 7
        /\ \A i, j \in 1..Len(candidates) :
               i # j => candidates[i] # candidates[j]

\* A window with three weekends.
C2_Witness ==
    /\ pc = "generated"
    /\ Len(candidates) >= 3

Ranked == pc = "ranked"

CandidateSet == {candidates[i] : i \in 1..Len(candidates)}

RankedSet == {ranked[i] : i \in 1..Len(ranked)}

\* The people of the input with a hard constraint on a day of weekend c.
HardHit(c) ==
    {p \in 1..Len(input_data.people) :
        \E k \in 1..Len(input_data.people[p].hard_constraints) :
            \E d \in c.start_date..c.end_date :
                overlaps_date(input_data.people[p].hard_constraints[k], d)}

\* The strict evaluations of the candidates that pass, and the relaxed
\* evaluations of all candidates.
Passing == {evaluate_weekend(input_data, c) : c \in CandidateSet} \ {None}

Relaxed == {_evaluate_weekend_relaxed(input_data, c) : c \in CandidateSet}

Minimum(a, b) == IF a <= b THEN a ELSE b

\* a sorts before b under (-fully_feasible, affected, soft_days, start_date).
StrictBefore(a, b) ==
    \/ a.fully_feasible_people_count > b.fully_feasible_people_count
    \/ /\ a.fully_feasible_people_count = b.fully_feasible_people_count
       /\ \/ a.affected_people_count < b.affected_people_count
          \/ /\ a.affected_people_count = b.affected_people_count
             /\ \/ a.total_soft_overlap_days < b.total_soft_overlap_days
                \/ /\ a.total_soft_overlap_days = b.total_soft_overlap_days
                   /\ a.weekend.start_date < b.weekend.start_date

\* a sorts before b under (hard_affected, affected, soft_days, start_date).
FallbackBefore(a, b) ==
    \/ a.hard_affected_people_count < b.hard_affected_people_count
    \/ /\ a.hard_affected_people_count = b.hard_affected_people_count
       /\ \/ a.affected_people_count < b.affected_people_count
          \/ /\ a.affected_people_count = b.affected_people_count
             /\ \/ a.total_soft_overlap_days < b.total_soft_overlap_days
                \/ /\ a.total_soft_overlap_days = b.total_soft_overlap_days
                   /\ a.weekend.start_date < b.weekend.start_date

\* C4: rank_weekends with top_n <= 0 completes with the empty list, whatever
\* the candidates and the people.
C4_NonPositiveTopNYieldsEmpty ==
    (Ranked /\ top_n <= 0) => ranked = <<>>

\* A call with a negative top_n over two candidates or more.
C4_Witness ==
    /\ Ranked
    /\ top_n < 0
    /\ Len(candidates) >= 2
    /\ ranked = <<>>

\* C5: all entries of a result carry one selection_mode; when some candidate
\* has no hard-affected person every entry is strict_hard (and there is one
\* when top_n > 0); fallback_hard entries appear only when every candidate
\* has a hard-affected person.
C5_ModesNeverMix ==
    Ranked =>
        /\ \A a, b \in RankedSet : a.selection_mode = b.selection_mode
        /\ (\E c \in CandidateSet : HardHit(c) = {}) =>
               /\ \A a \in RankedSet : a.selection_mode = "strict_hard"
               /\ top_n > 0 => Len(ranked) >= 1
        /\ (\E a \in RankedSet : a.selection_mode = "fallback_hard") =>
               \A c \in CandidateSet : HardHit(c) # {}

\* Some candidates pass, some do not, and top_n leaves room for all of them.
C5_Witness ==
    /\ Ranked
    /\ top_n >= Len(candidates)
    /\ \E c \in CandidateSet : HardHit(c) = {}
    /\ \E c \in CandidateSet : HardHit(c) # {}
    /\ ranked # <<>>

\* C6: strict evaluation yields nothing exactly when the relaxed evaluation
\* counts a hard-affected person; otherwise it is the relaxed evaluation
\* tagged strict_hard, with hard count 0 and an empty hard list.
C6_StrictIsFilteredRelaxed ==
    pc = "evaluated" =>
        LET r == _evaluate_weekend_relaxed(input_data, weekend)
        IN  /\ evaluation = None <=> r.hard_affected_people_count > 0
            /\ evaluation # None =>
                   /\ evaluation.selection_mode = "strict_hard"
                   /\ evaluation.hard_affected_people_count = 0
                   /\ evaluation.hard_affected_people = <<>>
                   /\ evaluation.weekend = r.weekend
                   /\ evaluation.weekend = weekend
                   /\ evaluation.fully_feasible_people_count
                          = r.fully_feasible_people_count
                   /\ evaluation.affected_people_count = r.affected_people_count
                   /\ evaluation.total_soft_overlap_days
                          = r.total_soft_overlap_days
                   /\ evaluation.affected_people = r.affected_people

\* A passing weekend with a soft-affected person, in a window where another
\* weekend fails strict evaluation.
C6_Witness ==
    /\ pc = "evaluated"
    /\ evaluation # None
    /\ evaluation.affected_people # <<>>
    /\ \E c \in CandidateSet : evaluate_weekend(input_data, c) = None

\* C7: with top_n > 0 and a passing candidate, the result is the first
\* min(top_n, passing) strict evaluations in ascending order of
\* (-fully_feasible, affected, soft_days, start_date); failing candidates
\* never fill it up.  One unconstrained person: all candidates tie and come
\* out in date order.
C7_StrictPhaseIsSortedPrefix ==
    (Ranked /\ top_n > 0 /\ Passing # {}) =>
        /\ Len(ranked) = Minimum(top_n, Cardinality(Passing))
        /\ RankedSet \subseteq Passing
        /\ \A i, j \in 1..Len(ranked) :
               i < j => StrictBefore(ranked[i], ranked[j])
        /\ \A a \in RankedSet : \A b \in Passing \ RankedSet : StrictBefore(a, b)
        /\ (/\ Len(input_data.people) = 1
            /\ input_data.people[1].hard_constraints = <<>>
            /\ input_data.people[1].soft_constraints = <<>>) =>
               /\ \A i \in 1..Len(ranked) :
                      /\ ranked[i].weekend = candidates[i]
                      /\ ranked[i].fully_feasible_people_count = 1
                      /\ ranked[i].affected_people_count = 0
                      /\ ranked[i].total_soft_overlap_days = 0

\* Two passing weekends ranked against their date order, a failing weekend
\* left out although top_n has room for it.
C7_Witness ==
    /\ Ranked
    /\ Cardinality(Passing) >= 2
    /\ Cardinality(Passing) < Len(candidates)
    /\ top_n > Cardinality(Passing)
    /\ ranked[1].weekend.start_date > ranked[2].weekend.start_date

\* C8: with top_n > 0 and no passing candidate, the result is the first
\* min(top_n, candidates) relaxed evaluations in ascending order of
\* (hard_affected, affected, soft_days, start_date), each tagged
\* fallback_hard and carrying its real, nonzero hard count and hard list.
C8_FallbackPhaseIsSortedPrefix ==
    (Ranked /\ top_n > 0 /\ Passing = {}) =>
        /\ Len(ranked) = Minimum(top_n, Len(candidates))
        /\ RankedSet \subseteq Relaxed
        /\ \A i, j \in 1..Len(ranked) :
               i < j => FallbackBefore(ranked[i], ranked[j])
        /\ \A a \in RankedSet : \A b \in Relaxed \ RankedSet : FallbackBefore(a, b)
        /\ \A a \in RankedSet :
               /\ a.selection_mode = "fallback_hard"
               /\ a.hard_affected_people_count > 0
               /\ a.hard_affected_people_count = Cardinality(HardHit(a.weekend))
               /\ Len(a.hard_affected_people) = a.hard_affected_people_count
               /\ \A k \in 1..Len(a.hard_affected_people) :
                      \E p \in HardHit(a.weekend) :
                          a.hard_affected_people[k].person_name
                              = input_data.people[p].name

\* No weekend passes, the first weekend blocks more people than a later one,
\* and top_n cuts the result short.
C8_Witness ==
    /\ Ranked
    /\ top_n > 0
    /\ top_n < Len(candidates)
    /\ Passing = {}
    /\ ranked # <<>>
    /\ ranked[1].weekend.start_date > candidates[1].start_date

\* C9: with top_n > 0 the result is empty exactly when there is no
\* candidate; hard constraints that no weekend satisfies still give a result.
C9_EmptyOnlyWithoutCandidates ==
    (Ranked /\ top_n > 0) => (ranked = <<>> <=> candidates = <<>>)

\* Every weekend is blocked by a hard constraint and a result is returned.
C9_Witness ==
    /\ Ranked
    /\ top_n > 0
    /\ candidates # <<>>
    /\ \A c \in CandidateSet : HardHit(c) # {}
    /\ ranked # <<>>

\* Two entries agree on (fully_feasible, affected, soft_days).
SameSoftScore(a, b) ==
    /\ a.fully_feasible_people_count = b.fully_feasible_people_count
    /\ a.affected_people_count = b.affected_people_count
    /\ a.total_soft_overlap_days = b.total_soft_overlap_days

\* C10 as stated: in every result, strict or fallback, of two entries with
\* the same (fully_feasible, affected, soft_days) the earlier weekend is
\* ranked first.
C10_EarlierWinsOnSoftTie ==
    Ranked =>
        \A i, j \in 1..Len(ranked) :
            (/\ SameSoftScore(ranked[i], ranked[j])
             /\ ranked[i].weekend.start_date < ranked[j].weekend.start_date)
                => i < j

\* C10 amended: of two entries with the same (hard_affected, fully_feasible,
\* affected, soft_days) the earlier weekend is ranked first; the hard count
\* is 0 throughout a strict result, so there the soft tie alone decides.
C10_EarlierWinsOnFullTie ==
    Ranked =>
        \A i, j \in 1..Len(ranked) :
            (/\ SameSoftScore(ranked[i], ranked[j])
             /\ ranked[i].hard_affected_people_count
                    = ranked[j].hard_affected_people_count
             /\ ranked[i].weekend.start_date < ranked[j].weekend.start_date)
                => i < j

\* A fallback result with two entries that tie on all four counts.
C10_Witness ==
    /\ Ranked
    /\ \E i, j \in 1..Len(ranked) :
           /\ i < j
           /\ ranked[i].selection_mode = "fallback_hard"
           /\ SameSoftScore(ranked[i], ranked[j])
           /\ ranked[i].hard_affected_people_count
                  = ranked[j].hard_affected_people_count

(***************************************************************************)
(* Properties of the per-person impact and of the evaluation records.      *)
(***************************************************************************)
\* A Single covers the day it names, an Interval the days start..end.
Covers(c, d) ==
    IF c.kind = "date"
    THEN c.date_value = d
    ELSE c.start_date <= d /\ d <= c.end_date

\* The days of weekend wk covered by a constraint of the list.
CoveredDays(constraints, wk) ==
    {d \in wk.start_date..wk.end_date :
        \E k \in 1..Len(constraints) : Covers(constraints[k], d)}

\* The positions of the constraints that cover a day of weekend wk.
MatchingPositions(constraints, wk) ==
    {k \in 1..Len(constraints) :
        \E d \in wk.start_date..wk.end_date : Covers(constraints[k], d)}

\* The list holds exactly the members of S, ascending.
IsAscendingListOf(list, S) ==
    /\ {list[i] : i \in 1..Len(list)} = S
    /\ \A i, j \in 1..Len(list) : i < j => list[i] < list[j]

\* "date:<day>" or "interval:<start>..<end>".
Description(c) ==
    IF c.kind = "date"
    THEN <<"date", c.date_value>>
    ELSE <<"interval", c.start_date, c.end_date>>

ImpactDatesRight(impact, constraints, wk) ==
    /\ impact = None <=> CoveredDays(constraints, wk) = {}
    /\ impact # None =>
           IsAscendingListOf(impact.overlapped_dates, CoveredDays(constraints, wk))

\* C11: an impact is absent exactly when no constraint of the severity
\* covers a day of the weekend; otherwise overlapped_dates lists exactly the
\* covered weekend days, ascending and without duplicates.
C11_ImpactIsUnionOfCoveredDays ==
    pc = "impact" =>
        /\ ImpactDatesRight(impact_hard, impact_person.hard_constraints, weekend)
        /\ ImpactDatesRight(impact_soft, impact_person.soft_constraints, weekend)

\* Two soft constraints that share a day and together cover the whole
\* weekend, for a person without a hard impact.
C11_Witness ==
    /\ pc = "impact"
    /\ impact_hard = None
    /\ impact_soft # None
    /\ Len(impact_soft.overlapped_dates) = 3
    /\ Len(impact_person.soft_constraints) = 2
    /\ \E d \in weekend.start_date..weekend.end_date :
           /\ Covers(impact_person.soft_constraints[1], d)
           /\ Covers(impact_person.soft_constraints[2], d)
    /\ \E d \in weekend.start_date..weekend.end_date :
           ~Covers(impact_person.soft_constraints[1], d)

MatchedRight(impact, constraints, wk) ==
    impact # None =>
        LET idx == MatchingPositions(constraints, wk)
            m == impact.matched_constraints
        IN  /\ Len(m) = Cardinality(idx)
            /\ \A k \in idx :
                   m[Cardinality({k2 \in idx : k2 < k}) + 1]
                       = Description(constraints[k])

\* C12: matched_constraints holds one entry for every declared constraint
\* of the severity that covers a day of the weekend, once however many days
\* it covers, in declaration order, and none for the other constraints.
C12_MatchedOncePerConstraintInOrder ==
    pc = "impact" =>
        /\ MatchedRight(impact_hard, impact_person.hard_constraints, weekend)
        /\ MatchedRight(impact_soft, impact_person.soft_constraints, weekend)

\* Two different soft constraints that both match, one on two days or more.
C12_Witness ==
    /\ pc = "impact"
    /\ impact_soft # None
    /\ Len(impact_person.soft_constraints) = 2
    /\ Len(impact_soft.matched_constraints) = 2
    /\ impact_soft.matched_constraints[1] # impact_soft.matched_constraints[2]
    /\ Cardinality(CoveredDays(<<impact_person.soft_constraints[1]>>, weekend)) >= 2

\* The people of the input with a soft constraint on a day of weekend wk.
SoftHit(wk) ==
    {p \in 1..Len(input_data.people) :
        CoveredDays(input_data.people[p].soft_constraints, wk) # {}}

\* The soft-covered days of weekend wk summed over the first n people.
RECURSIVE SoftDays(_, _)
SoftDays(n, wk) ==
    IF n = 0
    THEN 0
    ELSE Cardinality(CoveredDays(input_data.people[n].soft_constraints, wk))
         + SoftDays(n - 1, wk)

\* C13: in a relaxed evaluation the hard count is the number of people with
\* a hard impact, the affected count the number with a soft impact, the
\* fully-feasible count the rest of the people by the soft count alone, and
\* total_soft_overlap_days the sum of the soft-covered days; a day under
\* both a hard and a soft constraint counts on both sides.
C13_RelaxedCountsAreIndependent ==
    pc = "evaluated_relaxed" =>
        /\ evaluation.hard_affected_people_count = Cardinality(HardHit(weekend))
        /\ evaluation.affected_people_count = Cardinality(SoftHit(weekend))
        /\ evaluation.fully_feasible_people_count
               = Len(input_data.people) - Cardinality(SoftHit(weekend))
        /\ evaluation.total_soft_overlap_days
               = SoftDays(Len(input_data.people), weekend)
        /\ \A p \in HardHit(weekend) \ SoftHit(weekend) :
               \A k \in 1..Len(evaluation.affected_people) :
                   evaluation.affected_people[k].person_name
                       # input_data.people[p].name

\* One person has a hard and a soft constraint on the same weekend day.
C13_Witness ==
    /\ pc = "evaluated_relaxed"
    /\ \E p \in HardHit(weekend) \cap SoftHit(weekend) :
           CoveredDays(input_data.people[p].hard_constraints, weekend)
               \cap CoveredDays(input_data.people[p].soft_constraints, weekend)
                   # {}
    /\ evaluation.total_soft_overlap_days >= 2

PersonIndex(name) ==
    CHOOSE p \in 1..Len(input_data.people) : input_data.people[p].name = name

ImpactsWellFormed(impacts, wk) ==
    /\ \A k \in 1..Len(impacts) :
           /\ Len(impacts[k].overlapped_dates) \in 1..3
           /\ \A i \in 1..Len(impacts[k].overlapped_dates) :
                  impacts[k].overlapped_dates[i] \in wk.start_date..wk.end_date
           /\ \E p \in 1..Len(input_data.people) :
                  input_data.people[p].name = impacts[k].person_name
    /\ \A i, j \in 1..Len(impacts) :
           i < j => PersonIndex(impacts[i].person_name)
                        < PersonIndex(impacts[j].person_name)

EvaluationWellFormed(ev) ==
    /\ ImpactsWellFormed(ev.affected_people, ev.weekend)
    /\ ImpactsWellFormed(ev.hard_affected_people, ev.weekend)
    /\ 0 <= ev.affected_people_count
    /\ ev.affected_people_count <= Len(input_data.people)
    /\ ev.fully_feasible_people_count + ev.affected_people_count
           = Len(input_data.people)
    /\ ev.affected_people_count <= ev.total_soft_overlap_days
    /\ ev.total_soft_overlap_days <= 3 * ev.affected_people_count
    /\ ev.hard_affected_people_count = Len(ev.hard_affected_people)
    /\ ev.affected_people_count = Len(ev.affected_people)

\* C17: every evaluation, strict or relaxed, returned alone or in a ranking,
\* has impact records of 1 to 3 days of its weekend, counts that agree with
\* its lists and with the number of people, a soft-day total between the
\* affected count and three times it, and impact lists in input order with
\* no person twice.
C17_EvaluationsAreWellFormed ==
    /\ (pc \in {"evaluated", "evaluated_relaxed"} /\ evaluation # None) =>
           EvaluationWellFormed(evaluation)
    /\ \A i \in 1..Len(ranked) : EvaluationWellFormed(ranked[i])

\* A strict evaluation with two soft-affected people.
C17_Witness ==
    /\ pc = "evaluated"
    /\ evaluation # None
    /\ Len(evaluation.affected_people) = 2
    /\ evaluation.total_soft_overlap_days >= 3


(***************************************************************************)
(* parse_input_payload                                                     *)
(***************************************************************************)
Parsed == pc = "parsed"

AllConstraints(person) == person.hard_constraints \o person.soft_constraints

\* What the core assumes of its input.
ValidInputData(d) ==
    /\ d.min_date <= d.max_date
    /\ d.people # <<>>
    /\ \A i \in DOMAIN d.people :
           /\ d.people[i].name # <<>>
           /\ strip(d.people[i].name) = d.people[i].name
           /\ \A j \in DOMAIN d.people :
                  i # j => d.people[i].name # d.people[j].name
           /\ \A k \in DOMAIN AllConstraints(d.people[i]) :
                  LET c == AllConstraints(d.people[i])[k]
                  IN  c.kind = "interval" => c.start_date <= c.end_date

\* C15: parse_input_payload either raises InputValidationError or returns an
\* InputData with min_date <= max_date, a non-empty people list, non-empty
\* trimmed pairwise distinct names and no interval with start_date after
\* end_date.
C15_ParseRaisesValidationErrorOrReturnsValidInput ==
    Parsed =>
        \/ error = "InputValidationError"
        \/ error = "none" /\ ValidInputData(input_data)

(***************************************************************************)
(* run_cli                                                                 *)
(***************************************************************************)
Exited == pc = "exited"

\* The exceptions of the try block that are not InputValidationError.
InternalErrors == {"TypeError", "UnicodeDecodeError", "OverflowError", "MemoryError"}

\* C16: run_cli ends an input validation error with a nonzero exit status and
\* an unexpected error of load, candidate generation, ranking or payload
\* building with a nonzero exit status other than the validation status; in
\* both cases nothing has been printed to standard output.
C16_FailuresExitNonzeroWithoutReport ==
    /\ Exited /\ error = "InputValidationError" =>
           /\ exit_code = <<ValidationFailureStatus>>
           /\ exit_code[1] # 0
           /\ stdout = <<>>
    /\ Exited /\ error \in InternalErrors =>
           /\ exit_code[1] # 0
           /\ exit_code[1] # ValidationFailureStatus
           /\ stdout = <<>>

\* An unexpected error after the input was loaded and candidates were found.
C16_Witness ==
    /\ Exited
    /\ error = "MemoryError"
    /\ fault = "rank"
    /\ input_data # None
    /\ candidates # <<>>

\* C18: with --top-n <= 0 run_cli stops at the argument check with an
\* argument error: the input file is never loaded, no candidates are
\* generated, nothing is ranked, no report is built or printed; and
\* rank_weekends is only ever called with the positive --top-n.
C18_NonPositiveTopNStopsAtArguments ==
    /\ args.top_n <= 0 =>
           /\ pc \in {"cli_start", "exited"}
           /\ input_data = None
           /\ candidates = <<>>
           /\ ranked = <<>>
           /\ payload = None
           /\ stdout = <<>>
           /\ Exited => error = "SystemExit" /\ exit_code[1] # 0
    /\ pc \in {"ranking", "payload", "report"} => top_n = args.top_n /\ top_n > 0

\* --top-n <= 0 with an input file that would have produced a report.
C18_Witness ==
    /\ Exited
    /\ args.top_n <= 0
    /\ returned(load_input_from_json(args.input)) # None
    /\ generate_weekend_candidates(
           returned(load_input_from_json(args.input)).min_date,
           returned(load_input_from_json(args.input)).max_date) # <<>>


====
